---- MODULE Spec2Model ----
(***************************************************************************)
(* A model of the repeatability metric of KP2DSonar:                       *)
(*   src/kp2dsonar/evaluation/detector_evaluation_sonar.py                 *)
(*     normalize_keypoints, unnormalize_keypoints and                      *)
(*     compute_repeatability_sonar with its helpers filter_keypoints,      *)
(*     keep_true_keypoints and select_k_best.                              *)
(*                                                                         *)
(* Numbers.  Coordinates, confidences and distances are floats in the      *)
(* code.  Here they are fixed-point integers: the integer v stands for the *)
(* real v / Unit.  A product or quotient of two such numbers is rounded    *)
(* down to a multiple of 1 / Unit.  A float quotient whose exact value     *)
(* matters (repeatability, loc_err) is kept as the pair <<num, den>>.      *)
(*                                                                         *)
(* Arrays.  A numpy array of shape (N, c) is the sequence of its N rows,   *)
(* each row a tuple of c numbers.                                          *)
(***************************************************************************)
EXTENDS Integers, Sequences, FiniteSets, TLC

(***************************************************************************)
(* Bounds of the model.                                                    *)
(***************************************************************************)
\* most points in data['prob'] and data['warped_prob'] together
MaxPts == 4
\* keep_k_points ranges over 0 .. MaxK
MaxK == 2
\* the coordinates handed to normalize_keypoints and unnormalize_keypoints on
\* their own range from -1 to MaxCoord pixels
MaxCoord == 3
\* most samples in the data loader of a batch driver
MaxSamples == 4
\* the two sets handed to the matcher on its own hold at most 2 * MaxMatch
\* points together
MaxMatch == 2

\* resolution of the fixed-point numbers: v stands for v / Unit
Unit == 2 * 2 * 2

Min(x, y) == IF x <= y THEN x ELSE y
Max(x, y) == IF x >= y THEN x ELSE y

\* float product and quotient, rounded down to the resolution
FxMul(x, y) == (x * y) \div Unit
FxDiv(x, y) == (x * Unit) \div y

\* floor of the square root of n >= 0
RECURSIVE ISqrt(_)
ISqrt(n) ==
    IF n < 2 THEN n
    ELSE LET s == 2 * ISqrt(n \div 4)
         IN  IF (s + 1) * (s + 1) <= n THEN s + 1 ELSE s

RECURSIVE SumSeq(_)
SumSeq(s) == IF s = <<>> THEN 0 ELSE Head(s) + SumSeq(Tail(s))

\* points[mask, :] : the rows whose mask entry is True, in order
RECURSIVE BoolIndex(_, _)
BoolIndex(points, mask) ==
    IF points = <<>> THEN <<>>
    ELSE (IF Head(mask) THEN <<Head(points)>> ELSE <<>>)
         \o BoolIndex(Tail(points), Tail(mask))

\* points[:, :2]
Cols2(points) == [i \in 1..Len(points) |-> <<points[i][1], points[i][2]>>]

(***************************************************************************)
(* normalize_keypoints / unnormalize_keypoints, broadcast over the rows    *)
(* with the per-axis lists f and a.                                        *)
(***************************************************************************)
normalize_keypoints(kp, f, a) ==
    [i \in 1..Len(kp) |->
        <<FxDiv(kp[i][1], f[1]) - a[1], FxDiv(kp[i][2], f[2]) - a[2]>>]

\* the anchor left out of the way back
unnormalize_no_anchor(kp, f, a) ==
    [i \in 1..Len(kp) |-> <<FxMul(kp[i][1], f[1]), FxMul(kp[i][2], f[2])>>]

unnormalize_keypoints(kp, f, a) ==
    [i \in 1..Len(kp) |->
        <<FxMul(kp[i][1] + a[1], f[1]), FxMul(kp[i][2] + a[2], f[2])>>]

\* f = [shape[0] / 2, shape[1] / 2]  (true division)
HalfShape(shape) == <<(shape[1] * Unit) \div 2, (shape[2] * Unit) \div 2>>
\* a = [1, 1]
Anchor == <<Unit, Unit>>

(***************************************************************************)
(* filter_keypoints, keep_true_keypoints: shape holds whole pixels.        *)
(***************************************************************************)
\* the upper bounds taken as inclusive
InShapeClosed(row, shape) ==
    /\ row[1] >= 0
    /\ row[1] <= shape[1] * Unit
    /\ row[2] >= 0
    /\ row[2] <= shape[2] * Unit

InShape(row, shape) ==
    /\ row[1] >= 0
    /\ row[1] < shape[1] * Unit
    /\ row[2] >= 0
    /\ row[2] < shape[2] * Unit

filter_keypoints(points, shape) ==
    BoolIndex(points, [i \in 1..Len(points) |-> InShape(points[i], shape)])

\* the mask taken from the points themselves, not from their companions
keep_own_keypoints(points, ckw_, shape) ==
    BoolIndex(points, [i \in 1..Len(points) |-> InShape(points[i], shape)])

keep_true_keypoints(points, ckw_, shape) ==
    BoolIndex(points, [i \in 1..Len(ckw_) |-> InShape(ckw_[i], shape)])

(***************************************************************************)
(* select_k_best.  argsort() is numpy's default sort, which is not stable: *)
(* any permutation that puts the confidences in ascending order can be its *)
(* result, so the order is a parameter drawn from ArgSorts.                *)
(***************************************************************************)
Permutations1(n) ==
    {p \in [1..n -> 1..n] : \A i, j \in 1..n : i # j => p[i] # p[j]}

ArgSorts(points) ==
    {p \in Permutations1(Len(points)) :
        \A i, j \in 1..Len(points) :
            i < j => points[p[i]][3] <= points[p[j]][3]}

\* seq[i:] for a Python index i (negative: counted from the end)
PySliceFrom(s, i) ==
    LET n == Len(s)
        from == IF i < 0 THEN Max(n + i, 0) ELSE Min(i, n)
    IN  [j \in 1..(n - from) |-> s[from + j]]

\* the slice [start:] in place of [-start:]
select_k_best_from_start(points, k, order) ==
    LET sorted_prob == [i \in 1..Len(points) |->
                            <<points[order[i]][1], points[order[i]][2]>>]
        start == Min(k, Len(points))
    IN  PySliceFrom(sorted_prob, start)

select_k_best(points, k, order) ==
    LET sorted_prob == [i \in 1..Len(points) |->
                            <<points[order[i]][1], points[order[i]][2]>>]
        start == Min(k, Len(points))
    IN  PySliceFrom(sorted_prob, -start)

\* points[:, 2] reads the column of index 2
ProbColumn == 2
\* the columns of a detection array (x, y, probability)
DetectionColumns == 3
\* the columns of points[..., :2], the array select_k_best returns
KeptColumns == 2
\* points[:, 2] raises IndexError on an array of fewer columns
CanIndexProb(ncols) == ProbColumn < ncols

(***************************************************************************)
(* The sonar geometry.  The angle of a bearing is a multiple of fov / 2;   *)
(* with the field of view of SonarConfigs these are multiples of 90        *)
(* degrees, where sine and cosine are whole numbers.                       *)
(***************************************************************************)
SinDeg(d) == CASE d % 360 = 0 -> 0 [] d % 360 = 90 -> 1
               [] d % 360 = 180 -> 0 [] d % 360 = 270 -> -1
CosDeg(d) == CASE d % 360 = 0 -> 1 [] d % 360 = 90 -> 0
               [] d % 360 = 180 -> -1 [] d % 360 = 270 -> 0
\* the angle of (x, y) from the y axis, in (-180, 180]
Atan2Deg(x, y) == CASE x = 0 /\ y >= 0 -> 0 [] y = 0 /\ x > 0 -> 90
                    [] y = 0 /\ x < 0 -> -90 [] x = 0 /\ y < 0 -> 180

\* a row (range, bearing) in [-1, 1] to the Cartesian row (x, y)
pol_2_cart(points, fov, r_min, r_max) ==
    [i \in 1..Len(points) |->
        LET r == r_min + FxMul((points[i][1] + Unit) \div 2, r_max - r_min)
            d == (points[i][2] * (fov \div 2)) \div Unit
        IN  <<r * SinDeg(d), r * CosDeg(d)>>]

\* the inverse map on the first two columns; further columns pass through
cart_2_pol(points, fov, r_min, r_max) ==
    [i \in 1..Len(points) |->
        LET x == points[i][1]
            y == points[i][2]
            r == ISqrt(x * x + y * y)
            d == Atan2Deg(x, y)
        IN  <<FxDiv(2 * (r - r_min), r_max - r_min) - Unit,
              (d * Unit) \div (fov \div 2)>>
            \o SubSeq(points[i], 3, Len(points[i]))]

\* H applied to the homogeneous point (x, y, 1), then the perspective divide
warp_keypoints(kp, H) ==
    [i \in 1..Len(kp) |->
        LET x == kp[i][1]
            y == kp[i][2]
            hx == H[1][1] * x + H[1][2] * y + H[1][3] * Unit
            hy == H[2][1] * x + H[2][2] * y + H[2][3] * Unit
            w == H[3][1] * x + H[3][2] * y + H[3][3] * Unit
        IN  <<FxDiv(hx, w), FxDiv(hy, w)>>]

\* np.linalg.inv(H) up to the factor det(H), which the perspective divide of
\* warp_keypoints cancels: the adjugate of H
Nx(i) == (i % 3) + 1
inv(H) ==
    [i \in 1..3 |-> [j \in 1..3 |->
        H[Nx(j)][Nx(i)] * H[Nx(Nx(j))][Nx(Nx(i))]
        - H[Nx(j)][Nx(Nx(i))] * H[Nx(Nx(j))][Nx(i)]]]

\* np.stack([kp[:, 0], kp[:, 1], prob[:, 2]], axis=-1)
StackProb(kp, prob) ==
    [i \in 1..Len(kp) |-> <<kp[i][1], kp[i][2], prob[i][3]>>]

\* arr[:, :2] = xy
SetCols2(arr, xy) ==
    [i \in 1..Len(arr) |-> <<xy[i][1], xy[i][2]>> \o SubSeq(arr[i], 3, Len(arr[i]))]

(***************************************************************************)
(* Inputs of one call.                                                     *)
(***************************************************************************)
Identity == <<<<1, 0, 0>>, <<0, 1, 0>>, <<0, 0, 1>>>>
\* a quarter turn of the sonar about its origin
QuarterTurn == <<<<0, -1, 0>>, <<1, 0, 0>>, <<0, 0, 1>>>>
\* every range halved, written with a perspective denominator
HalfRange == <<<<1, 0, 0>>, <<0, 1, 0>>, <<0, 0, 2>>>>
Homographies == {Identity, QuarterTurn, HalfRange}

Shapes == {<<4, 4>>}
SonarConfigs == {[fov |-> 180, r_min |-> Unit, r_max |-> 5 * Unit]}

\* detections (x, y, probability) inside the image: x a pixel row (one of
\* them between two rows), y the first or the middle pixel column; two
\* probabilities, so that ties happen
Detections ==
    { <<0, 0, 2>>,
      <<Unit, 2 * Unit, 2>>,
      <<3 * Unit, 2 * Unit, 5>>,
      <<Unit + Unit \div 2, 2 * Unit, 5>> }

SeqsUpTo(S, n) == UNION {[1..m -> S] : m \in 0..n}

(***************************************************************************)
(* The state of one call of compute_repeatability_sonar(data,              *)
(* keep_k_points, distance_thresh): its arguments, its locals and the      *)
(* place the call has reached.                                             *)
(***************************************************************************)
VARIABLES data, keep_k_points, distance_thresh,
          ckw, warped_keypoints, true_warped_keypoints,
          N1, N2, norm, count1, count2, le1, le2,
          repeatability, loc_err, pc,
          tk_points, tk_k, tk_first, tk_second, tk_pc,
          owner, memo, entry, first,
          nk_kp, nk_f, nk_a, nk_mid, nk_out, nk_pc,
          ev_driver, ev_left, ev_repeatability, ev_localization_err,
          ev_result, ev_pc

\* select_k_best applied on its own: its arguments, its result, the result
\* of applying it once more, and the place reached
tk == <<tk_points, tk_k, tk_first, tk_second, tk_pc>>

locals == <<ckw, warped_keypoints, true_warped_keypoints,
            N1, N2, norm, count1, count2, le1, le2, repeatability, loc_err>>
args == <<data, keep_k_points, distance_thresh>>

\* owner: for each local array, the array whose storage it refers to: one
\* of the input arrays, or "new" for an array the call made itself
\* memo: each array argsort() has sorted, with the rows in the order it gave
\* entry: data as it was when the first call was entered
\* first: the tuple the first call returned, once the call is repeated
history == <<entry, first>>

\* normalize_keypoints and unnormalize_keypoints applied on their own: the
\* arguments kp, f and a, the result of the first of the two, the result of
\* the other applied to it, and the place reached
nk == <<nk_kp, nk_f, nk_a, nk_mid, nk_out, nk_pc>>

\* a batch driver of kp2d/evaluation/evaluate.py: which one, the samples the
\* data loader still holds, the lists repeatability and localization_err,
\* the means it returns, and the place reached
ev == <<ev_driver, ev_left, ev_repeatability, ev_localization_err,
        ev_result, ev_pc>>

\* the storage of the result of an expression that builds its result
\* (.copy(), kp / f - a, torch.tensor(...), np.stack, points[mask, :],
\* points[order, :2]): never that of its operand
SameArray(operand) == operand

NewArray(operand) == "new"

NoOwner == [ckw |-> "None", warped_keypoints |-> "None",
            true_warped_keypoints |-> "None"]

\* arr[:, :2] = xy written into the storage arr refers to: an input array
\* changes when arr refers to it
WriteThrough(d, storage, xy) ==
    IF storage \in {"prob", "warped_prob"}
    THEN [d EXCEPT ![storage] = SetCols2(@, xy)]
    ELSE d

\* points[order, :]
Take(points, order) == [i \in 1..Len(points) |-> points[order[i]]]

\* the orders argsort() can return for points: the sort is a function of
\* its argument, so an array sorted before comes out as it did then
Orders(points) ==
    IF \E m \in memo : m[1] = points
    THEN {o \in ArgSorts(points) :
             \E m \in memo : m[1] = points /\ m[2] = Take(points, o)}
    ELSE ArgSorts(points)

\* a local that is not bound yet
None == "None"

H == data.homography
shape == data.image_shape
sonar_config == data.sonar_config
f == HalfShape(shape)
a == Anchor

TopKIdle ==
    /\ tk_points = None /\ tk_k = None
    /\ tk_first = None /\ tk_second = None
    /\ tk_pc = "idle"

NkIdle ==
    /\ nk_kp = None /\ nk_f = None /\ nk_a = None
    /\ nk_mid = None /\ nk_out = None
    /\ nk_pc = "idle"

EvIdle ==
    /\ ev_driver = None /\ ev_left = None
    /\ ev_repeatability = None /\ ev_localization_err = None
    /\ ev_result = None
    /\ ev_pc = "idle"

\* distance_thresh=3 of the signature, in pixels
DefaultDistanceThresh == 3

\* distance_thresh in pixels: exact matches only, one pixel, the default
Thresholds == {0, Unit, DefaultDistanceThresh * Unit}
\* the thresholds of the whole call
CallThresholds == {0, DefaultDistanceThresh * Unit}

Init ==
    /\ data \in [prob : SeqsUpTo(Detections, MaxPts),
                 warped_prob : SeqsUpTo(Detections, MaxPts),
                 homography : Homographies,
                 image_shape : Shapes,
                 sonar_config : SonarConfigs]
    /\ Len(data.prob) + Len(data.warped_prob) <= MaxPts
    /\ keep_k_points \in 0..MaxK
    /\ distance_thresh \in CallThresholds
    /\ ckw = None
    /\ warped_keypoints = None
    /\ true_warped_keypoints = None
    /\ N1 = None /\ N2 = None /\ norm = None
    /\ count1 = None /\ count2 = None /\ le1 = None /\ le2 = None
    /\ repeatability = None /\ loc_err = None
    /\ pc = "begin"
    /\ TopKIdle
    /\ owner = NoOwner
    /\ memo = {}
    /\ entry = data
    /\ first = <<>>
    /\ NkIdle
    /\ EvIdle

\* lines 71-80
Begin ==
    /\ pc = "begin"
    /\ warped_keypoints' = data.warped_prob
    /\ owner' = [NoOwner EXCEPT !.warped_keypoints = "warped_prob"]
    /\ pc' = "normalize_w"
    /\ UNCHANGED <<args, tk, nk, ev, history, memo, ckw, true_warped_keypoints, N1, N2, norm,
                   count1, count2, le1, le2, repeatability, loc_err>>

\* line 82
NormalizeW ==
    /\ pc = "normalize_w"
    /\ ckw' = normalize_keypoints(Cols2(warped_keypoints), f, a)
    /\ owner' = [owner EXCEPT !.ckw = NewArray(owner.warped_keypoints)]
    /\ pc' = "pol_2_cart_w"
    /\ UNCHANGED <<args, tk, nk, ev, history, memo, warped_keypoints, true_warped_keypoints, N1, N2, norm,
                   count1, count2, le1, le2, repeatability, loc_err>>

\* lines 83-84
PolToCartW ==
    /\ pc = "pol_2_cart_w"
    /\ ckw' = pol_2_cart(ckw, sonar_config.fov, sonar_config.r_min,
                         sonar_config.r_max)
    /\ owner' = [owner EXCEPT !.ckw = NewArray(owner.ckw)]
    /\ pc' = "warp_w"
    /\ UNCHANGED <<args, tk, nk, ev, history, memo, warped_keypoints, true_warped_keypoints, N1, N2, norm,
                   count1, count2, le1, le2, repeatability, loc_err>>

\* lines 86-88
WarpW ==
    /\ pc = "warp_w"
    /\ ckw' = StackProb(warp_keypoints(ckw, H), data.warped_prob)
    /\ owner' = [owner EXCEPT !.ckw = NewArray(owner.ckw)]
    /\ pc' = "cart_2_pol_w"
    /\ UNCHANGED <<args, tk, nk, ev, history, memo, warped_keypoints, true_warped_keypoints, N1, N2, norm,
                   count1, count2, le1, le2, repeatability, loc_err>>

\* lines 90-91
CartToPolW ==
    /\ pc = "cart_2_pol_w"
    /\ ckw' = cart_2_pol(ckw, sonar_config.fov, sonar_config.r_min,
                         sonar_config.r_max)
    /\ owner' = [owner EXCEPT !.ckw = NewArray(owner.ckw)]
    /\ pc' = "unnormalize_w"
    /\ UNCHANGED <<args, tk, nk, ev, history, memo, warped_keypoints, true_warped_keypoints, N1, N2, norm,
                   count1, count2, le1, le2, repeatability, loc_err>>

\* line 92
UnnormalizeW ==
    /\ pc = "unnormalize_w"
    /\ ckw' = SetCols2(ckw, unnormalize_keypoints(Cols2(ckw), f, a))
    /\ data' = WriteThrough(data, owner.ckw,
                            unnormalize_keypoints(Cols2(ckw), f, a))
    /\ pc' = "keep_true"
    /\ UNCHANGED <<keep_k_points, distance_thresh, tk, nk, ev, history, owner, memo,
                   warped_keypoints, true_warped_keypoints, N1, N2, norm,
                   count1, count2, le1, le2, repeatability, loc_err>>

\* line 93
KeepTrue ==
    /\ pc = "keep_true"
    /\ warped_keypoints' = keep_true_keypoints(warped_keypoints, ckw, shape)
    /\ owner' = [owner EXCEPT !.warped_keypoints = NewArray(owner.warped_keypoints)]
    /\ pc' = "normalize_r"
    /\ UNCHANGED <<args, tk, nk, ev, history, memo, ckw, true_warped_keypoints, N1, N2, norm,
                   count1, count2, le1, le2, repeatability, loc_err>>

\* line 96, on keypoints = data['prob'][:, :2] of line 79
NormalizeR ==
    /\ pc = "normalize_r"
    /\ true_warped_keypoints' = normalize_keypoints(Cols2(data.prob), f, a)
    /\ owner' = [owner EXCEPT !.true_warped_keypoints = NewArray("prob")]
    /\ pc' = "pol_2_cart_r"
    /\ UNCHANGED <<args, tk, nk, ev, history, memo, ckw, warped_keypoints, N1, N2, norm,
                   count1, count2, le1, le2, repeatability, loc_err>>

\* line 97
PolToCartR ==
    /\ pc = "pol_2_cart_r"
    /\ true_warped_keypoints' =
           pol_2_cart(true_warped_keypoints, sonar_config.fov,
                      sonar_config.r_min, sonar_config.r_max)
    /\ owner' = [owner EXCEPT !.true_warped_keypoints = NewArray(owner.true_warped_keypoints)]
    /\ pc' = "warp_r"
    /\ UNCHANGED <<args, tk, nk, ev, history, memo, ckw, warped_keypoints, N1, N2, norm,
                   count1, count2, le1, le2, repeatability, loc_err>>

\* lines 99-100
WarpR ==
    /\ pc = "warp_r"
    /\ true_warped_keypoints' =
           StackProb(warp_keypoints(true_warped_keypoints, inv(H)), data.prob)
    /\ owner' = [owner EXCEPT !.true_warped_keypoints = NewArray(owner.true_warped_keypoints)]
    /\ pc' = "cart_2_pol_r"
    /\ UNCHANGED <<args, tk, nk, ev, history, memo, ckw, warped_keypoints, N1, N2, norm,
                   count1, count2, le1, le2, repeatability, loc_err>>

\* line 102
CartToPolR ==
    /\ pc = "cart_2_pol_r"
    /\ true_warped_keypoints' =
           cart_2_pol(true_warped_keypoints, sonar_config.fov,
                      sonar_config.r_min, sonar_config.r_max)
    /\ owner' = [owner EXCEPT !.true_warped_keypoints = NewArray(owner.true_warped_keypoints)]
    /\ pc' = "unnormalize_r"
    /\ UNCHANGED <<args, tk, nk, ev, history, memo, ckw, warped_keypoints, N1, N2, norm,
                   count1, count2, le1, le2, repeatability, loc_err>>

\* line 104
UnnormalizeR ==
    /\ pc = "unnormalize_r"
    /\ true_warped_keypoints' =
           SetCols2(true_warped_keypoints,
                    unnormalize_keypoints(Cols2(true_warped_keypoints), f, a))
    /\ data' = WriteThrough(data, owner.true_warped_keypoints,
                            unnormalize_keypoints(Cols2(true_warped_keypoints), f, a))
    /\ pc' = "filter_r"
    /\ UNCHANGED <<keep_k_points, distance_thresh, tk, nk, ev, history, owner, memo,
                   ckw, warped_keypoints, N1, N2, norm,
                   count1, count2, le1, le2, repeatability, loc_err>>

\* line 105
FilterR ==
    /\ pc = "filter_r"
    /\ true_warped_keypoints' = filter_keypoints(true_warped_keypoints, shape)
    /\ owner' = [owner EXCEPT !.true_warped_keypoints = NewArray(owner.true_warped_keypoints)]
    /\ pc' = "select_w"
    /\ UNCHANGED <<args, tk, nk, ev, history, memo, ckw, warped_keypoints, N1, N2, norm,
                   count1, count2, le1, le2, repeatability, loc_err>>

\* line 108
SelectW ==
    /\ pc = "select_w"
    /\ \E order \in Orders(warped_keypoints) :
           /\ warped_keypoints' =
                  select_k_best(warped_keypoints, keep_k_points, order)
           /\ memo' = memo \cup {<<warped_keypoints, Take(warped_keypoints, order)>>}
    /\ owner' = [owner EXCEPT !.warped_keypoints = NewArray(owner.warped_keypoints)]
    /\ pc' = "select_r"
    /\ UNCHANGED <<args, tk, nk, ev, history, ckw, true_warped_keypoints, N1, N2, norm,
                   count1, count2, le1, le2, repeatability, loc_err>>

\* line 109
SelectR ==
    /\ pc = "select_r"
    /\ \E order \in Orders(true_warped_keypoints) :
           /\ true_warped_keypoints' =
                  select_k_best(true_warped_keypoints, keep_k_points, order)
           /\ memo' = memo \cup {<<true_warped_keypoints, Take(true_warped_keypoints, order)>>}
    /\ owner' = [owner EXCEPT !.true_warped_keypoints = NewArray(owner.true_warped_keypoints)]
    /\ pc' = "sizes"
    /\ UNCHANGED <<args, tk, nk, ev, history, ckw, warped_keypoints, N1, N2, norm,
                   count1, count2, le1, le2, repeatability, loc_err>>

(***************************************************************************)
(* The matcher, lines 111-141.                                             *)
(***************************************************************************)
RECURSIVE MinOf(_)
MinOf(s) == IF Len(s) = 1 THEN s[1] ELSE Min(Head(s), MinOf(Tail(s)))

\* np.linalg.norm(A[:, None, :] - B[None, :, :], axis=2): N1 rows of N2
\* Euclidean distances
NormMatrix(A, B) ==
    [i \in 1..Len(A) |-> [j \in 1..Len(B) |->
        ISqrt((A[i][1] - B[j][1]) * (A[i][1] - B[j][1])
              + (A[i][2] - B[j][2]) * (A[i][2] - B[j][2]))]]

\* np.min(norm, axis=1) of an n1 x n2 matrix: numpy raises ValueError when
\* the axis it reduces over is empty
AxisMin1(m, n1, n2) ==
    IF n2 = 0 THEN [raised |-> TRUE]
    ELSE [raised |-> FALSE, value |-> [i \in 1..n1 |-> MinOf(m[i])]]

\* np.min(norm, axis=0)
AxisMin0(m, n1, n2) ==
    IF n1 = 0 THEN [raised |-> TRUE]
    ELSE [raised |-> FALSE,
          value |-> [j \in 1..n2 |-> MinOf([i \in 1..n1 |-> m[i][j]])]]

\* the threshold taken twice as wide
CorrectWide(mins, thresh) == [i \in 1..Len(mins) |-> mins[i] <= 2 * thresh]

\* a strict comparison with the threshold
CorrectStrict(mins, thresh) == [i \in 1..Len(mins) |-> mins[i] < thresh]

\* min <= distance_thresh, elementwise
Correct(mins, thresh) == [i \in 1..Len(mins) |-> mins[i] <= thresh]

\* a set of matches counted once, however many points it holds
CountOnce(c) == IF \E i \in 1..Len(c) : c[i] THEN 1 ELSE 0

\* np.sum of a boolean vector
CountTrue(c) == SumSeq([i \in 1..Len(c) |-> IF c[i] THEN 1 ELSE 0])

\* mins[correct].sum()
SumWhere(mins, c) == SumSeq(BoolIndex(mins, c))

\* the float num / den
Frac(num, den) == <<num, den>>

\* the localization error averaged over all points, not over the matches
MetricErrOverPoints(n1, n2, c1, c2, l1, l2) ==
    IF n1 + n2 > 0 /\ c1 + c2 > 0
    THEN <<Frac(c1 + c2, n1 + n2), Frac(l1 + l2, n1 + n2)>>
    ELSE <<Frac(-1, 1), Frac(-1, 1)>>

\* the zero-match test of line 135 left out
MetricNoMatchTest(n1, n2, c1, c2, l1, l2) ==
    IF n1 + n2 > 0
    THEN <<Frac(c1 + c2, n1 + n2),
           IF c1 + c2 > 0 THEN Frac(l1 + l2, c1 + c2) ELSE Frac(0, 1)>>
    ELSE <<Frac(-1, 1), Frac(-1, 1)>>

\* the matches of both directions over the size of the first set only
MetricOverN1(n1, n2, c1, c2, l1, l2) ==
    IF n1 + n2 > 0 /\ c1 + c2 > 0
    THEN <<Frac(c1 + c2, n1), Frac(l1 + l2, c1 + c2)>>
    ELSE <<Frac(-1, 1), Frac(-1, 1)>>

\* lines 135-140: <<repeatability, loc_err>>
Metric(n1, n2, c1, c2, l1, l2) ==
    IF n1 + n2 > 0 /\ c1 + c2 > 0
    THEN <<Frac(c1 + c2, n1 + n2), Frac(l1 + l2, c1 + c2)>>
    ELSE <<Frac(-1, 1), Frac(-1, 1)>>

\* lines 112-113
Sizes ==
    /\ pc = "sizes"
    /\ N1' = Len(true_warped_keypoints)
    /\ N2' = Len(warped_keypoints)
    /\ pc' = "norm"
    /\ UNCHANGED <<args, tk, nk, ev, history, owner, memo, ckw, warped_keypoints, true_warped_keypoints, norm,
                   count1, count2, le1, le2, repeatability, loc_err>>

\* lines 115-123
Norm ==
    /\ pc = "norm"
    /\ norm' = NormMatrix(true_warped_keypoints, warped_keypoints)
    /\ count1' = 0 /\ count2' = 0 /\ le1' = 0 /\ le2' = 0
    /\ pc' = "count1"
    /\ UNCHANGED <<args, tk, nk, ev, history, owner, memo, ckw, warped_keypoints, true_warped_keypoints, N1, N2,
                   repeatability, loc_err>>

\* the guard of the other reduction
Min1GuardSwapped(n1, n2) == n1 # 0

\* the reduction of line 125 is guarded by line 124
Min1Guard(n1, n2) == n2 # 0
\* the reduction of line 130 is guarded by line 129
Min2Guard(n1, n2) == n1 # 0

\* lines 124-128
Count1 ==
    /\ pc = "count1"
    /\ IF Min1Guard(N1, N2)
       THEN LET min1 == AxisMin1(norm, N1, N2)
                correct1 == Correct(min1.value, distance_thresh)
            IN  IF min1.raised
                THEN pc' = "raised" /\ UNCHANGED <<count1, le1>>
                ELSE /\ count1' = CountTrue(correct1)
                     /\ le1' = SumWhere(min1.value, correct1)
                     /\ pc' = "count2"
       ELSE pc' = "count2" /\ UNCHANGED <<count1, le1>>
    /\ UNCHANGED <<args, tk, nk, ev, history, owner, memo, ckw, warped_keypoints, true_warped_keypoints, N1, N2,
                   norm, count2, le2, repeatability, loc_err>>

\* lines 129-133
Count2 ==
    /\ pc = "count2"
    /\ IF Min2Guard(N1, N2)
       THEN LET min2 == AxisMin0(norm, N1, N2)
                correct2 == Correct(min2.value, distance_thresh)
            IN  IF min2.raised
                THEN pc' = "raised" /\ UNCHANGED <<count2, le2>>
                ELSE /\ count2' = CountTrue(correct2)
                     /\ le2' = SumWhere(min2.value, correct2)
                     /\ pc' = "result"
       ELSE pc' = "result" /\ UNCHANGED <<count2, le2>>
    /\ UNCHANGED <<args, tk, nk, ev, history, owner, memo, ckw, warped_keypoints, true_warped_keypoints, N1, N2,
                   norm, count1, le1, repeatability, loc_err>>

\* lines 135-141
Result ==
    /\ pc = "result"
    /\ repeatability' = Metric(N1, N2, count1, count2, le1, le2)[1]
    /\ loc_err' = Metric(N1, N2, count1, count2, le1, le2)[2]
    /\ pc' = "done"
    /\ UNCHANGED <<args, tk, nk, ev, history, owner, memo, ckw, warped_keypoints, true_warped_keypoints, N1, N2,
                   norm, count1, count2, le1, le2>>

vars == <<pc, tk_pc, nk_pc, ev_pc, data, keep_k_points, distance_thresh, ckw,
          warped_keypoints, true_warped_keypoints, N1, N2, norm,
          count1, count2, le1, le2, repeatability, loc_err,
          tk_points, tk_k, tk_first, tk_second,
          owner, memo, entry, first,
          nk_kp, nk_f, nk_a, nk_mid, nk_out,
          ev_driver, ev_left, ev_repeatability, ev_localization_err,
          ev_result>>

Next ==
    \/ Begin
    \/ NormalizeW \/ PolToCartW \/ WarpW \/ CartToPolW \/ UnnormalizeW
    \/ KeepTrue
    \/ NormalizeR \/ PolToCartR \/ WarpR \/ CartToPolR \/ UnnormalizeR
    \/ FilterR
    \/ SelectW \/ SelectR
    \/ Sizes \/ Norm \/ Count1 \/ Count2 \/ Result

Spec == Init /\ [][Next]_vars

(***************************************************************************)
(* The same data evaluated once more: a second call on the dict the first  *)
(* call was given, as it is after that call.                               *)
(***************************************************************************)
\* the tuple of line 141
Returned == <<N1, N2, repeatability, loc_err>>

CallAgain ==
    /\ pc = "done"
    /\ first = <<>>
    /\ first' = <<Returned>>
    /\ ckw' = None
    /\ warped_keypoints' = None
    /\ true_warped_keypoints' = None
    /\ N1' = None /\ N2' = None /\ norm' = None
    /\ count1' = None /\ count2' = None /\ le1' = None /\ le2' = None
    /\ repeatability' = None /\ loc_err' = None
    /\ owner' = NoOwner
    /\ pc' = "begin"
    /\ UNCHANGED <<args, tk, nk, ev, memo, entry>>

\* most points in the data that is evaluated twice
MaxTwicePts == MaxPts - 1

InitTwice ==
    /\ Init
    /\ Len(data.prob) + Len(data.warped_prob) <= MaxTwicePts

NextTwice == Next \/ CallAgain

SpecTwice == InitTwice /\ [][NextTwice]_vars

(***************************************************************************)
(* The matcher on its own: any two point sets reach it (lines 111-141).    *)
(***************************************************************************)
\* keep_k_points=300 of the signature
DefaultKeepKPoints == 300

\* pixel positions; distances 0, 1, 3 (the default threshold), sqrt(18) and
\* larger occur among them, and three of the points lie within the default
\* threshold of (0, 0)
MatchPoints ==
    { <<0, 0>>, <<0, 3 * Unit>>, <<3 * Unit, 0>>,
      <<10 * Unit, 10 * Unit>>, <<10 * Unit, 11 * Unit>> }

InitMatch ==
    /\ data = None
    /\ keep_k_points = DefaultKeepKPoints
    /\ distance_thresh \in Thresholds
    /\ ckw = None
    /\ true_warped_keypoints \in SeqsUpTo(MatchPoints, 2 * MaxMatch)
    /\ warped_keypoints \in
           SeqsUpTo(MatchPoints, 2 * MaxMatch - Len(true_warped_keypoints))
    /\ N1 = None /\ N2 = None /\ norm = None
    /\ count1 = None /\ count2 = None /\ le1 = None /\ le2 = None
    /\ repeatability = None /\ loc_err = None
    /\ pc = "sizes"
    /\ TopKIdle
    /\ owner = [NoOwner EXCEPT !.warped_keypoints = "new",
                               !.true_warped_keypoints = "new"]
    /\ memo = {}
    /\ entry = data
    /\ first = <<>>
    /\ NkIdle
    /\ EvIdle

NextMatch == Sizes \/ Norm \/ Count1 \/ Count2 \/ Result

SpecMatch == InitMatch /\ [][NextMatch]_vars

(***************************************************************************)
(* What the claims speak of, stated without the matcher's own steps.       *)
(***************************************************************************)
\* the two sets handed to the matcher
SetA == true_warped_keypoints
SetB == warped_keypoints

Dist(p, q) ==
    ISqrt((p[1] - q[1]) * (p[1] - q[1]) + (p[2] - q[2]) * (p[2] - q[2]))

\* the distance from p to its nearest neighbour in the non-empty set S
NearestDist(p, S) ==
    CHOOSE d \in {Dist(p, S[j]) : j \in 1..Len(S)} :
        \A j \in 1..Len(S) : d <= Dist(p, S[j])

\* the points of S with a neighbour in T within thresh
Matched(S, T, thresh) ==
    {i \in 1..Len(S) : \E j \in 1..Len(T) : Dist(S[i], T[j]) <= thresh}

CountDir(S, T, thresh) == Cardinality(Matched(S, T, thresh))

RECURSIVE SumOver(_, _, _)
SumOver(I, S, T) ==
    IF I = {} THEN 0
    ELSE LET i == CHOOSE x \in I : TRUE
         IN  NearestDist(S[i], T) + SumOver(I \ {i}, S, T)

LocErrDir(S, T, thresh) == SumOver(Matched(S, T, thresh), S, T)

\* equality and order of the floats num / den (den > 0)
FracEq(x, y) == x[1] * y[2] = y[1] * x[2]
FracLe(x, y) == x[1] * y[2] <= y[1] * x[2]
IsSentinel(x) == x[2] > 0 /\ FracEq(x, Frac(-1, 1))

CountBoth == CountDir(SetA, SetB, distance_thresh)
                + CountDir(SetB, SetA, distance_thresh)
LocErrBoth == LocErrDir(SetA, SetB, distance_thresh)
                + LocErrDir(SetB, SetA, distance_thresh)

\* the scenario of the specification, in pixels
ScenarioA == << <<0, 0>>, <<10 * Unit, 10 * Unit>> >>
ScenarioB == << <<0, 0>>, <<10 * Unit, 11 * Unit>> >>

\* C1: whenever N1 + N2 > 0 and some point is matched, the repeatability is
\* (count_A->B + count_B->A) / (N1 + N2) and the localization error is
\* (le_A->B + le_B->A) / (count_A->B + count_B->A); the scenario A =
\* {(0,0),(10,10)}, B = {(0,0),(10,11)}, threshold 3 gives 1.0 and 0.5.
C1_MetricFormula ==
    pc = "done" =>
        /\ (Len(SetA) + Len(SetB) > 0 /\ CountBoth > 0) =>
              /\ repeatability[2] > 0
              /\ FracEq(repeatability, Frac(CountBoth, Len(SetA) + Len(SetB)))
              /\ loc_err[2] > 0
              /\ FracEq(loc_err, Frac(LocErrBoth, CountBoth))
        /\ (/\ SetA = ScenarioA
            /\ SetB = ScenarioB
            /\ distance_thresh = DefaultDistanceThresh * Unit) =>
              /\ FracEq(repeatability, Frac(1, 1))
              /\ FracEq(loc_err, Frac(Unit, 2))

\* the scenario has been evaluated
C1_Witness ==
    /\ pc = "done"
    /\ SetA = ScenarioA
    /\ SetB = ScenarioB
    /\ distance_thresh = DefaultDistanceThresh * Unit
    /\ CountBoth = 4
    /\ loc_err = Frac(2 * Unit, 4)

\* C2: both results are the sentinel -1 exactly when N1 = N2 = 0 or no point
\* is matched in either direction (so whenever every pairwise distance
\* exceeds the threshold); otherwise neither is -1.
C2_SentinelExactly ==
    pc = "done" =>
        LET degenerate == (Len(SetA) = 0 /\ Len(SetB) = 0) \/ CountBoth = 0
            allFar == \A i \in 1..Len(SetA) : \A j \in 1..Len(SetB) :
                          Dist(SetA[i], SetB[j]) > distance_thresh
        IN  /\ IsSentinel(repeatability) <=> degenerate
            /\ IsSentinel(loc_err) <=> degenerate
            /\ allFar => IsSentinel(repeatability) /\ IsSentinel(loc_err)

\* two non-empty sets, every pairwise distance above the threshold
C2_Witness ==
    /\ pc = "done"
    /\ Len(SetA) > 0
    /\ Len(SetB) > 0
    /\ \A i \in 1..Len(SetA) : \A j \in 1..Len(SetB) :
           Dist(SetA[i], SetB[j]) > distance_thresh
    /\ IsSentinel(repeatability)
    /\ IsSentinel(loc_err)

\* C4 as claimed: if B is an exact copy of A then repeatability = 1.0 and
\* localization error = 0.0, for any threshold >= 0.
C4_CopyIsPerfect ==
    (pc = "done" /\ SetB = SetA) =>
        /\ FracEq(repeatability, Frac(1, 1))
        /\ FracEq(loc_err, Frac(0, 1))

\* C4 amended: if B is an exact copy of a non-empty A then repeatability =
\* 1.0 and localization error = 0.0, for any threshold >= 0.
C4_NonEmptyCopyIsPerfect ==
    (pc = "done" /\ SetB = SetA /\ Len(SetA) > 0) =>
        /\ repeatability[2] > 0
        /\ FracEq(repeatability, Frac(1, 1))
        /\ loc_err[2] > 0
        /\ FracEq(loc_err, Frac(0, 1))

\* a copy of two different points, matched with threshold 0
C4_Witness ==
    /\ pc = "done"
    /\ SetB = SetA
    /\ Len(SetA) = 2
    /\ SetA[1] # SetA[2]
    /\ distance_thresh = 0
    /\ repeatability = Frac(4, 4)

\* C3: for every input the repeatability is the sentinel -1 or lies in
\* [0, 1], and the localization error is the sentinel -1 or is >= 0.
C3_ResultRange ==
    pc = "done" =>
        /\ repeatability[2] > 0
        /\ \/ IsSentinel(repeatability)
           \/ /\ FracLe(Frac(0, 1), repeatability)
              /\ FracLe(repeatability, Frac(1, 1))
        /\ loc_err[2] > 0
        /\ \/ IsSentinel(loc_err)
           \/ FracLe(Frac(0, 1), loc_err)

\* a call that dropped points by top-k and matched only some of the rest
C3_Witness ==
    /\ pc = "done"
    /\ keep_k_points > 0
    /\ Len(data.prob) > keep_k_points
    /\ N1 = keep_k_points
    /\ ~IsSentinel(repeatability)
    /\ ~FracEq(repeatability, Frac(1, 1))
    /\ loc_err[1] > 0

(***************************************************************************)
(* select_k_best on its own (lines 64-69): applied to a detection array,   *)
(* then once more to what it returned, or to the returned rows with their  *)
(* probabilities put back.                                                 *)
(***************************************************************************)
RangeOf(s) == {s[i] : i \in 1..Len(s)}

\* the rows of out with the probability each has in points (the positions
\* of Detections are pairwise different)
Rescore(out, points) ==
    [i \in 1..Len(out) |->
        CHOOSE r \in RangeOf(points) : <<r[1], r[2]>> = out[i]]

InitTopK ==
    /\ data = None /\ keep_k_points = None /\ distance_thresh = None
    /\ ckw = None
    /\ warped_keypoints = None /\ true_warped_keypoints = None
    /\ N1 = None /\ N2 = None /\ norm = None
    /\ count1 = None /\ count2 = None /\ le1 = None /\ le2 = None
    /\ repeatability = None /\ loc_err = None
    /\ pc = "idle"
    /\ tk_points \in SeqsUpTo(Detections, MaxPts)
    /\ tk_k \in 0..MaxK
    /\ tk_first = None /\ tk_second = None
    /\ tk_pc = "select"
    /\ owner = NoOwner
    /\ memo = {}
    /\ entry = data
    /\ first = <<>>
    /\ NkIdle
    /\ EvIdle

TopKSelect ==
    /\ tk_pc = "select"
    /\ CanIndexProb(DetectionColumns)
    /\ \E order \in ArgSorts(tk_points) :
           tk_first' = select_k_best(tk_points, tk_k, order)
    /\ tk_pc' = "selected"
    /\ UNCHANGED <<args, locals, pc, nk, ev, history, owner, memo,
                   tk_points, tk_k, tk_second>>

\* select_k_best(select_k_best(S, k), k): the argument has KeptColumns columns
TopKAgain ==
    /\ tk_pc = "selected"
    /\ ~CanIndexProb(KeptColumns)
    /\ tk_pc' = "IndexError"
    /\ UNCHANGED <<args, locals, pc, nk, ev, history, owner, memo,
                   tk_points, tk_k, tk_first, tk_second>>

\* select_k_best on the returned rows with their probabilities
TopKAgainScored ==
    /\ tk_pc = "selected"
    /\ CanIndexProb(DetectionColumns)
    /\ \E order \in ArgSorts(Rescore(tk_first, tk_points)) :
           tk_second' =
               select_k_best(Rescore(tk_first, tk_points), tk_k, order)
    /\ tk_pc' = "selected_again"
    /\ UNCHANGED <<args, locals, pc, nk, ev, history, owner, memo,
                   tk_points, tk_k, tk_first>>

NextTopK == TopKSelect \/ TopKAgain \/ TopKAgainScored

SpecTopK == InitTopK /\ [][NextTopK]_vars

\* how often x occurs in the sequence s
Occurrences(x, s) == Cardinality({i \in 1..Len(s) : s[i] = x})
SameRows(s, t) ==
    \A x \in RangeOf(s) \cup RangeOf(t) : Occurrences(x, s) = Occurrences(x, t)

\* out holds the min(k, N) most probable of the N rows of points, stripped
\* of their probability: some min(k, N) of the rows, none less probable
\* than a row left out
IsKBest(points, out, k) ==
    /\ Len(out) = Min(k, Len(points))
    /\ \A i \in 1..Len(out) : Len(out[i]) = 2
    /\ \E kept \in SUBSET (1..Len(points)) :
          /\ Cardinality(kept) = Min(k, Len(points))
          /\ \A i \in kept : \A j \in (1..Len(points)) \ kept :
                 points[j][3] <= points[i][3]
          /\ \A x \in RangeOf(out) :
                 Occurrences(x, out) =
                     Cardinality({i \in kept :
                                     <<points[i][1], points[i][2]>> = x})

\* C5: for any N scored points and any k >= 0, select_k_best returns exactly
\* the min(k, N) most probable points without their probability; so the N1
\* and N2 of compute_repeatability_sonar never exceed keep_k_points.
C5_KBest ==
    [][ /\ (pc = "select_w" /\ pc' = "select_r") =>
              IsKBest(warped_keypoints, warped_keypoints', keep_k_points)
        /\ (pc = "select_r" /\ pc' = "sizes") =>
              IsKBest(true_warped_keypoints, true_warped_keypoints',
                      keep_k_points)
        /\ (pc' = "done") => (N1' <= keep_k_points /\ N2' <= keep_k_points)
      ]_vars

\* C5 for k >= 1, which the code meets
C5_KBestPositiveK ==
    [][ keep_k_points >= 1 =>
        /\ (pc = "select_w" /\ pc' = "select_r") =>
              IsKBest(warped_keypoints, warped_keypoints', keep_k_points)
        /\ (pc = "select_r" /\ pc' = "sizes") =>
              IsKBest(true_warped_keypoints, true_warped_keypoints',
                      keep_k_points)
        /\ (pc' = "done") => (N1' <= keep_k_points /\ N2' <= keep_k_points)
      ]_vars

\* C6 as claimed: select_k_best can be applied to its own output, and
\* returns that output.
C6_Idempotent ==
    /\ tk_pc # "IndexError"
    /\ tk_pc = "selected_again" => tk_second = tk_first

\* C6 amended: select_k_best cannot be applied to the array it returned,
\* which has no probability column (IndexError); applied to the returned
\* rows with their probabilities, it returns the same rows, each as often.
C6_IdempotentOnScoredRows ==
    /\ tk_pc = "IndexError" => tk_second = None
    /\ tk_pc = "selected_again" =>
          /\ Len(tk_second) = Len(tk_first)
          /\ SameRows(tk_second, tk_first)

\* a selection that dropped a row and kept two of equal probability, then
\* selected again
C6_Witness ==
    /\ tk_pc = "selected_again"
    /\ Len(tk_first) < Len(tk_points)
    /\ Len(tk_first) >= 2
    /\ Rescore(tk_first, tk_points)[1][3] = Rescore(tk_first, tk_points)[2][3]
    /\ tk_first[1] # tk_first[2]

(***************************************************************************)
(* The position of each detection in the other image: normalize, polar to  *)
(* Cartesian, the homography M, Cartesian to polar, unnormalize.           *)
(***************************************************************************)
Project(prob, M) ==
    LET normed == normalize_keypoints(Cols2(prob), f, a)
        cart == pol_2_cart(normed, sonar_config.fov, sonar_config.r_min,
                           sonar_config.r_max)
        warped == warp_keypoints(cart, M)
        stacked == StackProb(warped, prob)
        pol == cart_2_pol(stacked, sonar_config.fov, sonar_config.r_min,
                          sonar_config.r_max)
        pixels == unnormalize_keypoints(Cols2(pol), f, a)
    IN  SetCols2(pol, pixels)

\* the companions of the warped set, and the reference set seen in the
\* warped image
Companions == Project(data.warped_prob, H)
Reference == Project(data.prob, inv(H))

\* 0 <= x < height and 0 <= y < width
Inside(row) ==
    /\ 0 <= row[1] /\ row[1] < shape[1] * Unit
    /\ 0 <= row[2] /\ row[2] < shape[2] * Unit

\* the rows of s at the positions in keep, in the order of s
RECURSIVE RowsAt(_, _, _)
RowsAt(s, keep, i) ==
    IF i > Len(s) THEN <<>>
    ELSE (IF i \in keep THEN <<s[i]>> ELSE <<>>) \o RowsAt(s, keep, i + 1)

\* C7: filter_keypoints(points, shape) returns, in input order, exactly the
\* points with 0 <= points[:,0] < shape[0] and 0 <= points[:,1] < shape[1]:
\* a point at (height, 0) or (0, width) is excluded, one at (0, 0) is kept.
C7_FilterHalfOpen ==
    [][ (pc = "filter_r" /\ pc' = "select_w") =>
          LET in == true_warped_keypoints
              out == true_warped_keypoints'
          IN  /\ out = RowsAt(in, {i \in 1..Len(in) : Inside(in[i])}, 1)
              /\ \A i \in 1..Len(in) :
                    /\ in[i][1] = shape[1] * Unit => in[i] \notin RangeOf(out)
                    /\ in[i][2] = shape[2] * Unit => in[i] \notin RangeOf(out)
                    /\ (in[i][1] = 0 /\ in[i][2] = 0) => in[i] \in RangeOf(out)
      ]_vars

\* the filter has dropped a point on the line x = height and has kept a
\* point on the line y = 0
C7_Witness ==
    /\ pc = "select_w"
    /\ \E i \in 1..Len(Reference) : Reference[i][1] = shape[1] * Unit
    /\ \E i \in 1..Len(true_warped_keypoints) :
           true_warped_keypoints[i][2] = 0
    /\ \A i \in 1..Len(true_warped_keypoints) :
           true_warped_keypoints[i][1] # shape[1] * Unit

\* C8: the i-th point of the warped set is retained iff its companion lies
\* in [0, height) x [0, width); a retained point keeps its own coordinates
\* and its probability, and the retained points keep their order.
C8_KeptByCompanion ==
    pc \in {"normalize_r", "select_w"} =>
        LET companions == Companions
        IN  /\ Len(ckw) = Len(data.warped_prob)
            /\ ckw = companions
            /\ warped_keypoints =
                   RowsAt(data.warped_prob,
                          {i \in 1..Len(data.warped_prob) :
                              Inside(companions[i])},
                          1)

\* of three detections, all inside the image, the one whose companion is
\* outside has been dropped
C8_Witness ==
    /\ pc = "normalize_r"
    /\ Len(data.warped_prob) = 3
    /\ Len(warped_keypoints) = 2
    /\ \A i \in 1..3 : Inside(data.warped_prob[i])
    /\ ~Inside(Companions[2])
    /\ warped_keypoints = <<data.warped_prob[1], data.warped_prob[3]>>
    /\ warped_keypoints[1] # warped_keypoints[2]

\* the steps of one call, in the order the code takes them
StageOrder ==
    << "begin", "normalize_w", "pol_2_cart_w", "warp_w", "cart_2_pol_w",
       "unnormalize_w", "keep_true", "normalize_r", "pol_2_cart_r", "warp_r",
       "cart_2_pol_r", "unnormalize_r", "filter_r", "select_w", "select_r",
       "sizes", "norm", "count1", "count2", "result", "done" >>

\* C9: for each set the stages run in the order normalize, polar to
\* Cartesian, warp, Cartesian to polar, unnormalize, bounds filter; top-k of
\* a set follows its filter, matching follows top-k of both sets; hence
\* N1 = min(k, number of reference points whose inverse-warped position is
\* in bounds).
C9_StagesAndN1 ==
    [][ /\ pc' # pc =>
              \E i \in 1..(Len(StageOrder) - 1) :
                  pc = StageOrder[i] /\ pc' = StageOrder[i + 1]
        /\ pc' = "done" =>
              N1' = Min(keep_k_points,
                        Cardinality({i \in 1..Len(Reference) :
                                        Inside(Reference[i])}))
      ]_vars

\* C10: an empty set is no error: the call never raises, the minimum is
\* never taken over an empty axis, and with an empty reference or warped
\* set the call returns the sizes and -1, -1.
C10_EmptyIsSentinel ==
    /\ pc # "raised"
    /\ pc = "count2" /\ Min1Guard(N1, N2) => ~AxisMin1(norm, N1, N2).raised
    /\ pc = "result" /\ Min2Guard(N1, N2) => ~AxisMin0(norm, N1, N2).raised
    /\ (pc = "done" /\ (Len(SetA) = 0 \/ Len(SetB) = 0)) =>
          /\ N1 = Len(SetA)
          /\ N2 = Len(SetB)
          /\ IsSentinel(repeatability)
          /\ IsSentinel(loc_err)

\* every detection of the warped image was filtered out, the reference set
\* is not empty
C10_Witness ==
    /\ pc = "done"
    /\ Len(data.warped_prob) > 0
    /\ N2 = 0
    /\ N1 > 0
    /\ IsSentinel(repeatability)

(***************************************************************************)
(* The inputs of the call.                                                 *)
(***************************************************************************)
\* C11: compute_repeatability_sonar leaves data['prob'], data['warped_prob'],
\* data['homography'], data['image_shape'] and data['sonar_config'] as they
\* were at entry, at every step of the call, and a second call on the same
\* data returns what the first call returned.
C11_InputsUnchanged ==
    /\ data = entry
    /\ (pc = "done" /\ first # <<>>) => Returned = first[1]

\* a second call has returned a measured result on data whose warped
\* detections have companions elsewhere (line 92 wrote other coordinates
\* than the detections' own), after the top-k selection dropped a point
C11_Witness ==
    /\ pc = "done"
    /\ first # <<>>
    /\ data.prob # <<>>
    /\ ~IsSentinel(repeatability)
    /\ Cols2(ckw) # Cols2(data.warped_prob)
    /\ Len(ckw) > 1
    /\ N2 < Len(data.warped_prob)

(***************************************************************************)
(* The counting of the matcher.                                            *)
(***************************************************************************)
\* C12: the counting is nearest-neighbour counting in both directions, not
\* a one-to-one assignment: count_A->B is the number of points of A with a
\* point of B within the threshold, whichever point of B that is, and
\* likewise count_B->A, so count_A->B <= N1 and count_B->A <= N2; when
\* every point of A is within the threshold of the single point of B,
\* count_A->B = N1, count_B->A = 1 and the repeatability is 1.
C12_ManyToOne ==
    pc = "done" =>
        /\ count1 = CountDir(SetA, SetB, distance_thresh)
        /\ count2 = CountDir(SetB, SetA, distance_thresh)
        /\ count1 <= N1
        /\ count2 <= N2
        /\ (/\ Len(SetA) > 0
            /\ Len(SetB) = 1
            /\ \A i \in 1..Len(SetA) :
                   Dist(SetA[i], SetB[1]) <= distance_thresh) =>
               /\ count1 = Len(SetA)
               /\ count2 = 1
               /\ FracEq(repeatability, Frac(1, 1))

\* three different points of A within the threshold of the single point of
\* B: count_A->B = 3, count_B->A = 1, repeatability = 4/4
C12_Witness ==
    /\ pc = "done"
    /\ Len(SetA) = 3
    /\ Len(SetB) = 1
    /\ \A i, j \in 1..3 : i # j => SetA[i] # SetA[j]
    /\ \A i \in 1..3 : Dist(SetA[i], SetB[1]) <= distance_thresh
    /\ count1 = 3
    /\ count2 = 1
    /\ repeatability = Frac(4, 4)

(***************************************************************************)
(* normalize_keypoints and unnormalize_keypoints on their own (lines       *)
(* 15-19): one point, a scale per axis and an anchor per axis.             *)
(***************************************************************************)
Abs(x) == IF x < 0 THEN -x ELSE x

\* -1, 1/2, 1, 2 and 3
Scales == {-Unit, Unit \div 2, Unit, 2 * Unit, 3 * Unit}
\* a = [1, 1] of the call, and another anchor
Anchors == {<<Unit, Unit>>, <<0, Unit \div 2>>}
Coords == (-Unit)..(MaxCoord * Unit)

InitNorm ==
    /\ data = None /\ keep_k_points = None /\ distance_thresh = None
    /\ ckw = None
    /\ warped_keypoints = None /\ true_warped_keypoints = None
    /\ N1 = None /\ N2 = None /\ norm = None
    /\ count1 = None /\ count2 = None /\ le1 = None /\ le2 = None
    /\ repeatability = None /\ loc_err = None
    /\ pc = "idle"
    /\ TopKIdle
    /\ owner = NoOwner
    /\ memo = {}
    /\ entry = data
    /\ first = <<>>
    /\ EvIdle
    /\ nk_kp \in {<< <<x, y>> >> : x \in Coords, y \in {0, 1, Unit}}
    /\ nk_f \in Scales \X {Unit, 3 * Unit}
    /\ nk_a \in Anchors
    /\ nk_mid = None /\ nk_out = None
    /\ nk_pc = "start"

whole_call == <<args, locals, pc, tk, history, owner, memo>>

\* normalize_keypoints(kp, f, a)
NkNormalize ==
    /\ nk_pc = "start"
    /\ nk_mid' = normalize_keypoints(nk_kp, nk_f, nk_a)
    /\ nk_pc' = "normalized"
    /\ UNCHANGED <<whole_call, ev, nk_kp, nk_f, nk_a, nk_out>>

\* unnormalize_keypoints(normalize_keypoints(kp, f, a), f, a)
NkUnnormalizeBack ==
    /\ nk_pc = "normalized"
    /\ nk_out' = unnormalize_keypoints(nk_mid, nk_f, nk_a)
    /\ nk_pc' = "un_of_norm"
    /\ UNCHANGED <<whole_call, ev, nk_kp, nk_f, nk_a, nk_mid>>

\* unnormalize_keypoints(kp, f, a)
NkUnnormalize ==
    /\ nk_pc = "start"
    /\ nk_mid' = unnormalize_keypoints(nk_kp, nk_f, nk_a)
    /\ nk_pc' = "unnormalized"
    /\ UNCHANGED <<whole_call, ev, nk_kp, nk_f, nk_a, nk_out>>

\* normalize_keypoints(unnormalize_keypoints(kp, f, a), f, a)
NkNormalizeBack ==
    /\ nk_pc = "unnormalized"
    /\ nk_out' = normalize_keypoints(nk_mid, nk_f, nk_a)
    /\ nk_pc' = "norm_of_un"
    /\ UNCHANGED <<whole_call, ev, nk_kp, nk_f, nk_a, nk_mid>>

NextNorm ==
    \/ NkNormalize \/ NkUnnormalizeBack
    \/ NkUnnormalize \/ NkNormalizeBack

SpecNorm == InitNorm /\ [][NextNorm]_vars

ExactQuotient(p, f_) == (p * Unit) % Abs(f_) = 0
ExactProduct(p, f_, a_) == ((p + a_) * f_) % Unit = 0

Drivers ==
    {"evaluate_keypoint_net", "evaluate_keypoint_net_sonar",
     "evaluate_orb_sonar"}

\* <<rep, loc_err>> of one sample: the sentinel pair, half of the points
\* matched exactly, and all points matched half a pixel off on average
SampleResults ==
    { <<Frac(-1, 1), Frac(-1, 1)>>,
      <<Frac(1, 2), Frac(0, 1)>>,
      <<Frac(4, 4), Frac(2 * Unit, 4)>> }

RECURSIVE SumFrac(_)
SumFrac(s) ==
    IF s = <<>> THEN Frac(0, 1)
    ELSE LET h == Head(s)
             t == SumFrac(Tail(s))
         IN  Frac(h[1] * t[2] + t[1] * h[2], h[2] * t[2])

\* np.mean of a list: its sum over its length (0 / 0, nan, for an empty list)
Mean(s) == Frac(SumFrac(s)[1], SumFrac(s)[2] * Len(s))

InitBatch ==
    /\ data = None /\ keep_k_points = None /\ distance_thresh = None
    /\ ckw = None
    /\ warped_keypoints = None /\ true_warped_keypoints = None
    /\ N1 = None /\ N2 = None /\ norm = None
    /\ count1 = None /\ count2 = None /\ le1 = None /\ le2 = None
    /\ repeatability = None /\ loc_err = None
    /\ pc = "idle"
    /\ TopKIdle
    /\ owner = NoOwner
    /\ memo = {}
    /\ entry = data
    /\ first = <<>>
    /\ NkIdle
    /\ ev_driver \in Drivers
    /\ ev_left \in 0..MaxSamples
    /\ ev_repeatability = <<>>
    /\ ev_localization_err = <<>>
    /\ ev_result = None
    /\ ev_pc = "loop"

\* evaluate_keypoint_net, lines 77-80: one sample
EvKeypointNet ==
    /\ ev_pc = "loop"
    /\ ev_driver = "evaluate_keypoint_net"
    /\ ev_left > 0
    /\ \E r \in SampleResults :
           IF ~IsSentinel(r[1]) /\ ~IsSentinel(r[2])
           THEN /\ ev_repeatability' = Append(ev_repeatability, r[1])
                /\ ev_localization_err' = Append(ev_localization_err, r[2])
           ELSE UNCHANGED <<ev_repeatability, ev_localization_err>>
    /\ ev_left' = ev_left - 1
    /\ UNCHANGED <<whole_call, nk, ev_driver, ev_result, ev_pc>>

\* evaluate_keypoint_net_sonar, lines 156-160: one sample
EvKeypointNetSonar ==
    /\ ev_pc = "loop"
    /\ ev_driver = "evaluate_keypoint_net_sonar"
    /\ ev_left > 0
    /\ \E r \in SampleResults :
           /\ ev_repeatability' = Append(ev_repeatability, r[1])
           /\ ev_localization_err' = Append(ev_localization_err, r[2])
    /\ ev_left' = ev_left - 1
    /\ UNCHANGED <<whole_call, nk, ev_driver, ev_result, ev_pc>>

\* evaluate_orb_sonar, lines 212-218: the first sample raises, at the latest
\* where line 218 reads score_1, which is not bound
EvOrbSonar ==
    /\ ev_pc = "loop"
    /\ ev_driver = "evaluate_orb_sonar"
    /\ ev_left > 0
    /\ ev_pc' = "raised"
    /\ UNCHANGED <<whole_call, nk, ev_driver, ev_left, ev_repeatability,
                   ev_localization_err, ev_result>>

\* lines 93, 176, 254: the data loader is exhausted
EvReturn ==
    /\ ev_pc = "loop"
    /\ ev_left = 0
    /\ ev_result' = <<Mean(ev_repeatability), Mean(ev_localization_err)>>
    /\ ev_pc' = "returned"
    /\ UNCHANGED <<whole_call, nk, ev_driver, ev_left, ev_repeatability,
                   ev_localization_err>>

NextBatch == EvKeypointNet \/ EvKeypointNetSonar \/ EvOrbSonar \/ EvReturn

SpecBatch == InitBatch /\ [][NextBatch]_vars

\* no sentinel is in the lists, and the means of lists that hold a measured
\* result are a repeatability in [0, 1] and an error >= 0
MeansInRange ==
    /\ ev_pc \in {"loop", "returned"} =>
          \A i \in 1..Len(ev_repeatability) :
              /\ ~IsSentinel(ev_repeatability[i])
              /\ ~IsSentinel(ev_localization_err[i])
    /\ (/\ ev_pc = "returned"
        /\ \E i \in 1..Len(ev_repeatability) :
               ~IsSentinel(ev_repeatability[i])) =>
           /\ ev_result[1][2] > 0
           /\ FracLe(Frac(0, 1), ev_result[1])
           /\ FracLe(ev_result[1], Frac(1, 1))
           /\ FracLe(Frac(0, 1), ev_result[2])

\* C14: in every batch driver (evaluate_keypoint_net,
\* evaluate_keypoint_net_sonar, evaluate_orb_sonar) a sample whose result is
\* the sentinel -1 is not appended to the lists, so the mean repeatability
\* returned lies in [0, 1] and the mean localization error is >= 0 whenever
\* a sample gave a measured result.
C14_SentinelNotAccumulated == MeansInRange

\* it holds of evaluate_keypoint_net, which tests rep and loc_err (line 78)
C14_KeypointNetSkipsSentinel ==
    ev_driver = "evaluate_keypoint_net" => MeansInRange

(***************************************************************************)
(* The measured result.                                                    *)
(***************************************************************************)
\* C15: whenever the result is not the sentinel, the localization error
\* satisfies 0 <= loc_err <= distance_thresh and the repeatability is
\* strictly greater than 0: a repeatability of 0 is never returned, no
\* match at all is reported as -1.
C15_MeasuredResult ==
    (pc = "done" /\ ~IsSentinel(repeatability)) =>
        /\ ~IsSentinel(loc_err)
        /\ loc_err[2] > 0
        /\ FracLe(Frac(0, 1), loc_err)
        /\ FracLe(loc_err, Frac(distance_thresh, 1))
        /\ repeatability[2] > 0
        /\ repeatability[1] > 0

\* of three points two are matched, each at a distance that is exactly the
\* threshold: the localization error is the threshold, the repeatability
\* is 2/3
C15_Witness ==
    /\ pc = "done"
    /\ distance_thresh > 0
    /\ N1 + N2 = 3
    /\ count1 + count2 = 2
    /\ ~IsSentinel(repeatability)
    /\ FracEq(loc_err, Frac(distance_thresh, 1))
    /\ FracEq(repeatability, Frac(2, 3))

====
